---- MODULE Spec2Model ----
(***************************************************************************)
(* Model of the deployment orchestrator `processDeployment`                *)
(* (packages/cli/src/util/deploy/process-deployment.ts), the upload        *)
(* progress closure `updateProgress` it registers on the upload tasks, and *)
(* the follow-mode build-log subscription opened by `displayBuildLogs`     *)
(* (packages/cli/src/util/logs/iterator.ts, packages/cli/src/index.ts).    *)
(*                                                                         *)
(* The event stream of createDeployment is the environment: every step of  *)
(* the for-await loop receives an arbitrary event, the end of the stream,  *)
(* or an exception.  Handlers run to completion between two awaits         *)
(* (single-threaded event loop), so each action is one such slice.         *)
(***************************************************************************)
EXTENDS Integers, Sequences, FiniteSets, TLC

(* ------------------------------ bounds --------------------------------- *)
MaxEvents == 3          \* events read from the stream (Spec)
MaxCallbacks == 1       \* 'progress' emissions of the upload tasks (Spec)
UploadEvents == 1       \* events read from the stream (SpecUpload)
UploadCallbacks == 5    \* 'progress' emissions of the upload tasks (SpecUpload)
MaxLogs == 1            \* log entries delivered to onEvent
MaxFileCounts == 1      \* file-count events in one stream
MaxPolls == 2           \* polls of the deployment by inspect --wait
MaxInstalls == 3        \* concurrent invocations of runNpmInstall

(* ------------------------------ events --------------------------------- *)
AdvisoryTypes == {"tip", "notice", "warning"}

ReadyStates == {"QUEUED", "BUILDING", "READY"}

ChecksStates == {"absent", "completed", "running"}

ErrorCodes == {"missing_project_settings", "forbidden", "other"}

PayloadIds == {"dpl_a", "dpl_b"}

\* byte lengths of the missing files announced by a file-count event
MissingConfigs == {<< >>, <<4>>, <<1, 2>>}

\* the configurations a stream of Spec announces
StreamConfigs == {<< >>, <<1, 2>>}

Ev(t, a, s) == [type |-> t, arg |-> a, sizes |-> s]

NoEvent == Ev("none", "-", << >>)

\* the exception objects a collaborator may raise
Exceptions == {"err_a", "err_b"}

\* the event types whose reads are counted
TrackedTypes == {"created", "file-count", "file-uploaded"}

StreamEvents ==
    {Ev(t, "-", << >>) : t \in AdvisoryTypes \cup {"file-uploaded", "building", "checks-running", "error", "unknown"}}
    \cup {Ev(t, p, << >>) : t \in {"canceled", "checks-conclusion-failed", "alias-assigned"}, p \in PayloadIds}
    \cup {Ev("created", r, << >>) : r \in ReadyStates}
    \cup {Ev("ready", c, << >>) : c \in ChecksStates}
    \cup {Ev("file-count", "-", s) : s \in MissingConfigs}

(* --------------------------- status texts ------------------------------ *)
\* the initial status worded as an upload
deployingSpinnerVal_uploading == "Uploading"

deployingSpinnerVal == "Deploying"

Stopped == "stopped"

VARIABLES
    pc,            \* position of processDeployment: start, loop, linking, handlingError, done
    token,         \* now._token is set
    noWait,        \* option noWait
    withLogs,      \* option withLogs
    isTTY,         \* now._client.stderr.isTTY
    limits,        \* what the environment produces: events, 'progress' emissions, file sets
    consumed,      \* number of events read from the stream
    seen,          \* the advisory events the stream delivered, in order
    reads,         \* how many created, file-count and file-uploaded events were read
    linkCalls,     \* number of calls of linkFolderToProject
    insp,          \* the `inspect` command: its position, flags and locals
    cur,           \* the loop variable `event` where the function suspended or returned
    spinner,       \* text shown by output.spinner, or Stopped
    spinnerLog,    \* every text passed to output.spinner, in order
    indications,   \* the `indications` array
    closures,      \* one updateProgress closure per file-count event
    callbacks,     \* number of 'progress' emissions so far
    logSub,        \* build-log subscription: none, fetching, streaming, aborted,
                   \* destroyed, refused, malformed
    logDelivered,  \* entries handed to onEvent
    outcome,       \* what processDeployment returned or threw
    procExited,    \* process.exit was called
    npm,           \* runNpmInstall: the semaphore, meta.runNpmInstallSet and the invocations
    content,       \* the hashed file list and the uploads made from it
    gobuild,       \* the Go builder: the work tree and the recorded undo actions
    scan,          \* scanParentDirs: the directories above destPath and the result
    search         \* findGoModPath: its arguments, its locals and its position

vars == <<pc, limits, token, noWait, withLogs, isTTY, consumed, seen, reads, linkCalls, insp, cur,
          spinner, spinnerLog, indications, closures, callbacks, logSub, logDelivered, outcome, procExited, npm, content, gobuild,
          scan, search>>

\* the state of the other programs of the repository
others == <<npm, content, gobuild, scan, search>>

\* the state of the deployment commands
cliVars ==
    <<pc, limits, token, noWait, withLogs, isTTY, consumed, seen, reads, linkCalls, insp, cur,
      spinner, spinnerLog, indications, closures, callbacks, logSub, logDelivered, outcome,
      procExited>>

NoOutcome == [kind |-> "none", via |-> "-", value |-> "-", hasIndications |-> FALSE, indications |-> << >>]

Return(via, value) == [kind |-> "return", via |-> via, value |-> value, hasIndications |-> FALSE, indications |-> << >>]

Throw(via, value) == [kind |-> "throw", via |-> via, value |-> value, hasIndications |-> FALSE, indications |-> << >>]

\* no other program of the repository is running
OthersIdle ==
    /\ npm = "idle"
    /\ content = "idle"
    /\ gobuild = "idle"
    /\ scan = "idle"
    /\ search = "idle"

\* `inspect` is not running
NoInspect ==
    [pc |-> "off", wait |-> FALSE, follow |-> FALSE, displayed |-> "none", promise |-> "none",
     aborts |-> 0, polls |-> 0, fetches |-> 0, expired |-> FALSE, result |-> NoOutcome]

\* the deployment commands are not running
CliIdle ==
    /\ pc = "idle"
    /\ limits = [events |-> 0, callbacks |-> 0, configs |-> {}]
    /\ token = TRUE
    /\ noWait = FALSE
    /\ withLogs = FALSE
    /\ isTTY = TRUE
    /\ consumed = 0
    /\ seen = << >>
    /\ reads = [t \in TrackedTypes |-> 0]
    /\ linkCalls = 0
    /\ insp = NoInspect
    /\ cur = NoEvent
    /\ spinner = Stopped
    /\ spinnerLog = << >>
    /\ indications = << >>
    /\ closures = << >>
    /\ callbacks = 0
    /\ logSub = "none"
    /\ logDelivered = 0
    /\ outcome = NoOutcome
    /\ procExited = FALSE

InitWith(maxEvents, maxCallbacks, configs) ==
    /\ pc = "start"
    /\ limits = [events |-> maxEvents, callbacks |-> maxCallbacks, configs |-> configs]
    /\ token \in BOOLEAN
    /\ noWait \in BOOLEAN
    /\ withLogs \in BOOLEAN
    /\ isTTY \in BOOLEAN
    /\ consumed = 0
    /\ seen = << >>
    /\ reads = [t \in TrackedTypes |-> 0]
    /\ linkCalls = 0
    /\ insp = NoInspect
    /\ cur = NoEvent
    /\ spinner = Stopped
    /\ spinnerLog = << >>
    /\ indications = << >>
    /\ closures = << >>
    /\ callbacks = 0
    /\ logSub = "none"
    /\ logDelivered = 0
    /\ outcome = NoOutcome
    /\ procExited = FALSE
    /\ OthersIdle

Init == InitWith(MaxEvents, MaxCallbacks, StreamConfigs)

InitUpload == InitWith(UploadEvents, UploadCallbacks, MissingConfigs)

\* `inspect` is started with any --wait and --logs; processDeployment is not running
InitInspect ==
    /\ pc = "idle"
    /\ limits = [events |-> 0, callbacks |-> 0, configs |-> {}]
    /\ token = TRUE
    /\ noWait = FALSE
    /\ withLogs \in BOOLEAN
    /\ isTTY = TRUE
    /\ consumed = 0
    /\ seen = << >>
    /\ reads = [t \in TrackedTypes |-> 0]
    /\ linkCalls = 0
    /\ insp \in {[NoInspect EXCEPT !.pc = "start", !.wait = w] : w \in BOOLEAN}
    /\ cur = NoEvent
    /\ spinner = Stopped
    /\ spinnerLog = << >>
    /\ indications = << >>
    /\ closures = << >>
    /\ callbacks = 0
    /\ logSub = "none"
    /\ logDelivered = 0
    /\ outcome = NoOutcome
    /\ procExited = FALSE
    /\ OthersIdle

(* --------------------------- output.spinner ---------------------------- *)
Spin(text) ==
    /\ spinner' = text
    /\ spinnerLog' = Append(spinnerLog, text)

\* abortController?.abort(): closes the subscription if one is open;
\* a pending fetch is aborted through its signal, an open stream is destroyed
\* by the 'abort' listener
Abort(sub) ==
    IF sub = "fetching" THEN "aborted"
    ELSE IF sub = "streaming" THEN "destroyed"
    ELSE sub

\* stopSpinner without the abort of the log subscription
stopSpinner_noAbort ==
    /\ logSub' = logSub
    /\ spinner' = Stopped
    /\ spinnerLog' = spinnerLog

\* function stopSpinner(): abort the log subscription, stop the spinner
stopSpinner ==
    /\ logSub' = Abort(logSub)
    /\ spinner' = Stopped
    /\ spinnerLog' = spinnerLog

(* ------------------------------- start --------------------------------- *)
\* the start with the spinner written before the token is tested
Start_spinnerFirst ==
    /\ pc = "start"
    /\ ~procExited
    /\ Spin(deployingSpinnerVal)
    /\ IF ~token
       THEN /\ pc' = "done"
            /\ outcome' = Throw("token", "Missing authentication token")
       ELSE /\ pc' = "loop"
            /\ UNCHANGED outcome
    /\ UNCHANGED <<others, limits, token, noWait, withLogs, isTTY, consumed, seen, reads, linkCalls, insp, cur, indications,
                   closures, callbacks, logSub, logDelivered, procExited>>

\* const token = now._token; if (!token) throw ...; else the spinner is started
Start ==
    /\ pc = "start"
    /\ ~procExited
    /\ IF ~token
       THEN /\ pc' = "done"
            /\ outcome' = Throw("token", "Missing authentication token")
            /\ UNCHANGED <<spinner, spinnerLog>>
       ELSE /\ pc' = "loop"
            /\ Spin(deployingSpinnerVal)
            /\ UNCHANGED outcome
    /\ UNCHANGED <<others, limits, token, noWait, withLogs, isTTY, consumed, seen, reads, linkCalls, insp, cur, indications,
                   closures, callbacks, logSub, logDelivered, procExited>>

opts == <<limits, token, noWait, withLogs, isTTY>>

(* --------------------------- upload progress --------------------------- *)
RECURSIVE SumSeq(_)
SumSeq(s) == IF s = << >> THEN 0 ELSE Head(s) + SumSeq(Tail(s))

\* const missingSize = missing.map(sha => total.get(sha).data.length).reduce(...)
missingSize(c) == SumSeq(c.sizes)

\* the sample taken from the first upload task alone
uploadedBytes_firstTask(c) == IF c.bytes = << >> THEN 0 ELSE c.bytes[1]

\* const uploadedBytes = uploads.reduce((acc, e) => acc + e.bytesUploaded, 0)
uploadedBytes(c) == SumSeq(c.bytes)

\* progress(current, total) of util/output/progress: the bar, or null when
\* the sample is out of range
progress(current, total) ==
    IF total <= 0 \/ current < 0 \/ current > total THEN "null" ELSE "bar"

\* a step size of 0 whatever the terminal
stepSize_zero == IF isTTY THEN 0 ELSE 0

\* const stepSize = now._client.stderr.isTTY ? 0 : 0.25, in quarters
stepSize == IF isTTY THEN 0 ELSE 1

\* percent >= nextStep with percent = uploadedBytes / missingSize and
\* nextStep counted in quarters; 0/0 is NaN and compares false
percentReached(c) ==
    IF missingSize(c) = 0
    THEN uploadedBytes(c) > 0
    ELSE 4 * uploadedBytes(c) >= c.nextStep * missingSize(c)

\* the text updateProgress passes to output.spinner, "-" when it writes none
updateProgressText(c) ==
    IF progress(uploadedBytes(c), missingSize(c)) = "null"
    THEN deployingSpinnerVal
    ELSE IF percentReached(c) THEN "Uploading" ELSE "-"

\* the closure after updateProgress ran: nextStep += stepSize after a report;
\* `reported` remembers the uploadedBytes shown by the last report
updateProgressStep(c) ==
    IF updateProgressText(c) = "Uploading"
    THEN [c EXCEPT !.nextStep = @ + stepSize, !.reported = uploadedBytes(c)]
    ELSE c

\* const updateProgress = () => { ... } applied to closure c, stored at index i
updateProgress(i, c) ==
    /\ closures' = [j \in 1..(IF i > Len(closures) THEN i ELSE Len(closures)) |->
                      IF j = i THEN updateProgressStep(c) ELSE closures[j]]
    /\ IF updateProgressText(c) = "-"
       THEN UNCHANGED <<spinner, spinnerLog>>
       ELSE Spin(updateProgressText(c))

Zeros(n) == [k \in 1..n |-> 0]

\* value of `reported` before the first 'Uploading' report of a closure
NotReported == -1

(* --------------------------- the stream loop --------------------------- *)
\* for await (const event of createDeployment(...)): one event is read
Read(ev) ==
    /\ pc = "loop"
    /\ ~procExited
    /\ consumed < limits.events
    /\ consumed' = consumed + 1
    /\ seen' = IF ev.type \in AdvisoryTypes THEN Append(seen, ev.type) ELSE seen
    /\ reads' = IF ev.type \in TrackedTypes THEN [reads EXCEPT ![ev.type] = @ + 1] ELSE reads

\* the list without 'warning'
indicationTypes_noWarning == {"tip", "notice"}

\* ['tip', 'notice', 'warning'].includes(event.type)
indicationTypes == {"tip", "notice", "warning"}

\* the event types some branch of the loop body tests for
handledTypes ==
    indicationTypes \cup {"file-count", "file-uploaded", "created", "building", "canceled",
                          "ready", "checks-running", "checks-conclusion-failed", "error",
                          "alias-assigned"}

\* tip / notice / warning: indications.push(event)
OnAdvisory(ev) ==
    /\ ev.type \in indicationTypes
    /\ Read(ev)
    /\ indications' = Append(indications, ev.type)
    /\ UNCHANGED <<pc, opts, others, linkCalls, insp, cur, spinner, spinnerLog, closures, callbacks,
                   logSub, logDelivered, outcome, procExited>>

\* file-count: a new updateProgress closure (nextStep = 0) is registered on
\* every upload task and called once
OnFileCount(ev) ==
    /\ ev.type = "file-count"
    /\ ev.sizes \in limits.configs
    /\ Read(ev)
    /\ Len(closures) < MaxFileCounts
    /\ updateProgress(Len(closures) + 1,
                      [sizes |-> ev.sizes, bytes |-> Zeros(Len(ev.sizes)), nextStep |-> 0,
                       reported |-> NotReported])
    /\ UNCHANGED <<pc, opts, others, linkCalls, insp, cur, indications, callbacks, logSub, logDelivered,
                   outcome, procExited>>

\* file-uploaded: output.debug only
OnFileUploaded(ev) ==
    /\ ev.type = "file-uploaded"
    /\ Read(ev)
    /\ UNCHANGED <<pc, opts, others, linkCalls, insp, cur, spinner, spinnerLog, indications, closures,
                   callbacks, logSub, logDelivered, outcome, procExited>>

\* an event type no branch tests for: the iteration does nothing
OnOther(ev) ==
    /\ ev.type \notin handledTypes
    /\ Read(ev)
    /\ UNCHANGED <<pc, opts, others, linkCalls, insp, cur, spinner, spinnerLog, indications, closures,
                   callbacks, logSub, logDelivered, outcome, procExited>>

\* created: await linkFolderToProject(...)
OnCreated(ev) ==
    /\ ev.type = "created"
    /\ Read(ev)
    /\ pc' = "linking"
    /\ cur' = ev
    /\ linkCalls' = linkCalls + 1
    /\ UNCHANGED <<opts, others, insp, spinner, spinnerLog, indications, closures, callbacks,
                   logSub, logDelivered, outcome, procExited>>

\* created, after linkFolderToProject resolved, without the test of noWait
LinkDone_waits ==
    /\ pc = "linking"
    /\ ~procExited
    /\ logSub' = IF withLogs THEN "fetching" ELSE Abort(logSub)
    /\ Spin(IF cur.arg = "QUEUED" THEN "Queued" ELSE "Building")
    /\ pc' = "loop"
    /\ cur' = NoEvent
    /\ UNCHANGED <<opts, others, consumed, seen, reads, linkCalls, insp, indications, closures, callbacks,
                   logDelivered, outcome, procExited>>

\* created, after linkFolderToProject resolved: stopSpinner, print the URLs,
\* return on noWait, else open the log subscription and show Queued/Building
LinkDone ==
    /\ pc = "linking"
    /\ ~procExited
    /\ IF noWait
       THEN /\ stopSpinner
            /\ outcome' = Return("created", cur.arg)
            /\ pc' = "done"
       ELSE /\ logSub' = IF withLogs THEN "fetching" ELSE Abort(logSub)
            /\ Spin(IF cur.arg = "QUEUED" THEN "Queued" ELSE "Building")
            /\ pc' = "loop"
            /\ UNCHANGED outcome
    /\ cur' = NoEvent
    /\ UNCHANGED <<opts, others, consumed, seen, reads, linkCalls, insp, indications, closures, callbacks, logDelivered, procExited>>

\* linkFolderToProject rejected: catch (err) { stopSpinner(); throw err }
LinkThrow(e) ==
    /\ pc = "linking"
    /\ ~procExited
    /\ stopSpinner
    /\ outcome' = Throw("link", e)
    /\ pc' = "done"
    /\ cur' = NoEvent
    /\ UNCHANGED <<opts, others, consumed, seen, reads, linkCalls, insp, indications, closures, callbacks, logDelivered, procExited>>

\* building: output.spinner('Building') unless withLogs
OnBuilding(ev) ==
    /\ ev.type = "building"
    /\ Read(ev)
    /\ IF ~withLogs THEN Spin("Building") ELSE UNCHANGED <<spinner, spinnerLog>>
    /\ UNCHANGED <<pc, opts, others, linkCalls, insp, cur, indications, closures, callbacks, logSub,
                   logDelivered, outcome, procExited>>

\* canceled without the return: the loop goes on
OnCanceled_noReturn(ev) ==
    /\ ev.type = "canceled"
    /\ Read(ev)
    /\ stopSpinner
    /\ outcome' = Return("canceled", ev.arg)
    /\ cur' = ev
    /\ UNCHANGED <<pc, opts, others, linkCalls, insp, indications, closures, callbacks, logDelivered, procExited>>

\* canceled: stopSpinner(); return event.payload
OnCanceled(ev) ==
    /\ ev.type = "canceled"
    /\ Read(ev)
    /\ stopSpinner
    /\ outcome' = Return("canceled", ev.arg)
    /\ pc' = "done"
    /\ cur' = ev
    /\ UNCHANGED <<opts, others, linkCalls, insp, indications, closures, callbacks, logDelivered, procExited>>

\* ready: 'Completing' when checksState is absent or 'completed', unless withLogs
\* ready with the test of checksState left out
OnReady_ignoresChecks(ev) ==
    /\ ev.type = "ready"
    /\ Read(ev)
    /\ IF ~withLogs
       THEN Spin("Completing")
       ELSE UNCHANGED <<spinner, spinnerLog>>
    /\ UNCHANGED <<pc, opts, others, linkCalls, insp, cur, indications, closures, callbacks, logSub,
                   logDelivered, outcome, procExited>>

OnReady(ev) ==
    /\ ev.type = "ready"
    /\ Read(ev)
    /\ IF (IF ev.arg # "absent" THEN ev.arg = "completed" ELSE TRUE) /\ ~withLogs
       THEN Spin("Completing")
       ELSE UNCHANGED <<spinner, spinnerLog>>
    /\ UNCHANGED <<pc, opts, others, linkCalls, insp, cur, indications, closures, callbacks, logSub,
                   logDelivered, outcome, procExited>>

\* checks-running: output.spinner('Running Checks') unless withLogs
OnChecksRunning(ev) ==
    /\ ev.type = "checks-running"
    /\ Read(ev)
    /\ IF ~withLogs THEN Spin("Running Checks") ELSE UNCHANGED <<spinner, spinnerLog>>
    /\ UNCHANGED <<pc, opts, others, linkCalls, insp, cur, indications, closures, callbacks, logSub,
                   logDelivered, outcome, procExited>>

\* checks-conclusion-failed handled like an error of unknown code: thrown
OnChecksFailed_throws(ev) ==
    /\ ev.type = "checks-conclusion-failed"
    /\ Read(ev)
    /\ stopSpinner
    /\ outcome' = Throw("checks-conclusion-failed", ev.arg)
    /\ pc' = "done"
    /\ cur' = ev
    /\ UNCHANGED <<opts, others, linkCalls, insp, indications, closures, callbacks, logDelivered, procExited>>

\* checks-conclusion-failed: stopSpinner(); return event.payload
OnChecksFailed(ev) ==
    /\ ev.type = "checks-conclusion-failed"
    /\ Read(ev)
    /\ stopSpinner
    /\ outcome' = Return("checks-conclusion-failed", ev.arg)
    /\ pc' = "done"
    /\ cur' = ev
    /\ UNCHANGED <<opts, others, linkCalls, insp, indications, closures, callbacks, logDelivered, procExited>>

\* error: stopSpinner(); await now.handleDeploymentError(event.payload, { env })
OnError(ev) ==
    /\ ev.type = "error"
    /\ Read(ev)
    /\ stopSpinner
    /\ pc' = "handlingError"
    /\ cur' = ev
    /\ UNCHANGED <<opts, others, linkCalls, insp, indications, closures, callbacks, logDelivered, outcome, procExited>>

\* only the first of the two tests on error.code
returnedCodes_onlySettings == {"missing_project_settings"}

\* the codes for which the error is returned instead of thrown
returnedCodes == {"missing_project_settings", "forbidden"}

\* handleDeploymentError resolved with an error of the given code: returned
\* for the two known codes, else thrown through catch { stopSpinner(); throw }
HandleErrorResolved(code) ==
    /\ pc = "handlingError"
    /\ ~procExited
    /\ IF code \in returnedCodes
       THEN /\ outcome' = Return("error", code)
            /\ UNCHANGED <<spinner, spinnerLog, logSub>>
       ELSE /\ outcome' = Throw("error", code)
            /\ stopSpinner
    /\ pc' = "done"
    /\ cur' = NoEvent
    /\ UNCHANGED <<opts, others, consumed, seen, reads, linkCalls, insp, indications, closures, callbacks, logDelivered, procExited>>

\* handleDeploymentError itself rejected: catch { stopSpinner(); throw }
HandleErrorThrow(e) ==
    /\ pc = "handlingError"
    /\ ~procExited
    /\ stopSpinner
    /\ outcome' = Throw("handler", e)
    /\ pc' = "done"
    /\ cur' = NoEvent
    /\ UNCHANGED <<opts, others, consumed, seen, reads, linkCalls, insp, indications, closures, callbacks, logDelivered, procExited>>

\* alias-assigned: stopSpinner(); event.payload.indications = indications; return
OnAliasAssigned(ev) ==
    /\ ev.type = "alias-assigned"
    /\ Read(ev)
    /\ stopSpinner
    /\ outcome' = [Return("alias-assigned", ev.arg) EXCEPT
                     !.hasIndications = TRUE, !.indications = indications]
    /\ pc' = "done"
    /\ cur' = ev
    /\ UNCHANGED <<opts, others, linkCalls, insp, indications, closures, callbacks, logDelivered, procExited>>

\* the stream is exhausted: the loop ends and the function returns undefined
StreamEnd ==
    /\ pc = "loop"
    /\ ~procExited
    /\ outcome' = Return("end", "undefined")
    /\ pc' = "done"
    /\ UNCHANGED <<opts, others, consumed, seen, reads, linkCalls, insp, cur, spinner, spinnerLog, indications, closures,
                   callbacks, logSub, logDelivered, procExited>>

\* the stream's exception turned into the loop's end
StreamThrow_swallowed(e) ==
    /\ pc = "loop"
    /\ ~procExited
    /\ stopSpinner
    /\ outcome' = Return("end", "undefined")
    /\ pc' = "done"
    /\ UNCHANGED <<opts, others, consumed, seen, reads, linkCalls, insp, cur, indications, closures, callbacks, logDelivered, procExited>>

\* the stream throws (failed upload, network): catch { stopSpinner(); throw }
StreamThrow(e) ==
    /\ pc = "loop"
    /\ ~procExited
    /\ stopSpinner
    /\ outcome' = Throw("stream", e)
    /\ pc' = "done"
    /\ UNCHANGED <<opts, others, consumed, seen, reads, linkCalls, insp, cur, indications, closures, callbacks, logDelivered, procExited>>

(* ------------------------ progress callbacks --------------------------- *)
\* upload task t of the i-th file-count event emits 'progress' with its
\* bytesUploaded counter at n (never decreasing, at most the file length)
Progress(i, t, n) ==
    /\ pc # "start"
    /\ ~procExited
    /\ callbacks < limits.callbacks
    /\ n >= closures[i].bytes[t]
    /\ n <= closures[i].sizes[t]
    /\ callbacks' = callbacks + 1
    /\ updateProgress(i, [closures[i] EXCEPT !.bytes[t] = n])
    /\ UNCHANGED <<pc, opts, others, consumed, seen, reads, linkCalls, insp, cur, indications, logSub, logDelivered,
                   outcome, procExited>>

(* ------------------------ build-log subscriber ------------------------- *)
\* the state of processDeployment that the subscriber and inspect leave alone
deployVars ==
    <<pc, opts, consumed, seen, reads, linkCalls, cur, indications, closures, callbacks, outcome>>

\* process.on('unhandledRejection', handleRejection): ... process.exit(1)
handleRejection == procExited' = TRUE

\* printEvents: its promise rejects on a fatal stream error; displayBuildLogs
\* drops that promise in follow mode, so the rejection is unhandled
printEventsRejects == TRUE

\* the rejection is handled only where the caller awaits the promise
SubscriberFails(how) ==
    /\ logSub' = how
    /\ IF printEventsRejects
       THEN /\ insp' = IF insp.promise = "pending" THEN [insp EXCEPT !.promise = "rejected"] ELSE insp
            /\ IF insp.displayed = "promise" THEN UNCHANGED procExited ELSE handleRejection
       ELSE UNCHANGED <<procExited, insp>>

\* client.fetch(eventsUrl) answered ok: the body is piped into the
\* jsonlines parser and the abort listener is registered
LogFetchOk ==
    /\ logSub = "fetching"
    /\ ~procExited
    /\ logSub' = "streaming"
    /\ UNCHANGED <<pc, opts, others, consumed, seen, reads, linkCalls, insp, cur, spinner, spinnerLog, indications,
                   closures, callbacks, logDelivered, outcome, procExited>>

\* if (!eventsRes.ok) throw new Error(await eventsRes.text())
LogFetchFail ==
    /\ logSub = "fetching"
    /\ ~procExited
    /\ SubscriberFails("refused")
    /\ UNCHANGED <<pc, opts, others, consumed, seen, reads, linkCalls, cur, spinner, spinnerLog, indications,
                   closures, callbacks, logDelivered, outcome>>

\* a parsed line: onEvent stops the spinner and prints the entry
LogData ==
    /\ logSub = "streaming"
    /\ ~procExited
    /\ logDelivered < MaxLogs
    /\ logDelivered' = logDelivered + 1
    /\ spinner' = Stopped
    /\ UNCHANGED <<pc, opts, others, consumed, seen, reads, linkCalls, insp, cur, spinnerLog, indications, closures,
                   callbacks, logSub, outcome, procExited>>

\* a malformed line: the parser emits 'error', the iterator throws
LogMalformed ==
    /\ logSub = "streaming"
    /\ ~procExited
    /\ SubscriberFails("malformed")
    /\ UNCHANGED <<pc, opts, others, consumed, seen, reads, linkCalls, cur, spinner, spinnerLog, indications,
                   closures, callbacks, logDelivered, outcome>>

\* the log stream ends (the server closes it once every entry was sent):
\* printEvents has drained it and its promise resolves
LogEnd ==
    /\ logSub = "streaming"
    /\ ~procExited
    /\ logSub' = "ended"
    /\ insp' = IF insp.promise = "pending" THEN [insp EXCEPT !.promise = "resolved"] ELSE insp
    /\ UNCHANGED <<deployVars, others, spinner, spinnerLog, logDelivered, procExited>>

(* ------------------------------ inspect -------------------------------- *)
InspectInputs == {"ok", "bad_flags", "help", "no_argument", "bad_timeout"}

ScopeResults == {"ok", "NOT_AUTHORIZED", "TEAM_DELETED"}

\* return follow ? abortController : promise, with the branch left out
displayBuildLogs_alwaysController(follow) == IF follow THEN "AbortController" ELSE "AbortController"

\* what displayBuildLogs hands to its caller: return follow ? abortController : promise
displayBuildLogs(follow) == IF follow THEN "AbortController" ELSE "promise"

InspectReturn(value) == [insp EXCEPT !.pc = "done", !.result = Return("inspect", value)]

InspectThrow(e) == [insp EXCEPT !.pc = "done", !.result = Throw("inspect", e)]

\* argument parsing, --help, the missing argument and the timeout check, up
\* to await getScope(client)
InspectStart(input) ==
    /\ insp.pc = "start"
    /\ ~procExited
    /\ insp' = CASE input = "ok" -> [insp EXCEPT !.pc = "scope", !.fetches = @ + 1]
               [] input = "help" -> [InspectReturn("2") EXCEPT !.result.via = input]
               [] OTHER -> [InspectReturn("1") EXCEPT !.result.via = input]
    /\ UNCHANGED <<deployVars, others, spinner, spinnerLog, logSub, logDelivered, procExited>>

\* getScope resolved, or rejected with one of the two reported codes; then
\* the spinner is shown up to await getDeployment(...)
ScopeDone(res) ==
    /\ insp.pc = "scope"
    /\ ~procExited
    /\ IF res = "ok"
       THEN /\ insp' = [insp EXCEPT !.pc = "resolving", !.fetches = @ + 1]
            /\ Spin("Fetching deployment")
       ELSE /\ insp' = InspectReturn("1")
            /\ UNCHANGED <<spinner, spinnerLog>>
    /\ UNCHANGED <<deployVars, others, logSub, logDelivered, procExited>>

\* getScope rejected with any other error: throw err
ScopeThrow(e) ==
    /\ insp.pc = "scope"
    /\ ~procExited
    /\ insp' = InspectThrow(e)
    /\ UNCHANGED <<deployVars, others, spinner, spinnerLog, logSub, logDelivered, procExited>>

\* getDeployment resolved: with --logs the subscription is opened, followed
\* under --wait and awaited otherwise
DeploymentResolved ==
    /\ insp.pc = "resolving"
    /\ ~procExited
    /\ IF withLogs
       THEN /\ insp' = [insp EXCEPT !.follow = insp.wait,
                                    !.displayed = displayBuildLogs(insp.wait),
                                    !.promise = "pending",
                                    !.pc = IF insp.wait THEN "loop" ELSE "awaiting"]
            /\ logSub' = "fetching"
       ELSE /\ insp' = [insp EXCEPT !.pc = "loop"]
            /\ UNCHANGED logSub
    /\ UNCHANGED <<deployVars, others, spinner, spinnerLog, logDelivered, procExited>>

\* getDeployment or the fetch of the builds rejected: nothing catches it
FetchThrow(e) ==
    /\ insp.pc \in {"resolving", "polling", "details"}
    /\ ~procExited
    /\ insp' = InspectThrow(e)
    /\ UNCHANGED <<deployVars, others, spinner, spinnerLog, logSub, logDelivered, procExited>>

\* await displayBuildLogs(client, deployment, false); return;
\* awaiting a value that is no promise continues at once
AwaitLogs ==
    /\ insp.pc = "awaiting"
    /\ ~procExited
    /\ insp.displayed = "promise" => insp.promise \in {"resolved", "rejected"}
    /\ insp' = IF insp.displayed = "promise" /\ insp.promise = "rejected"
               THEN InspectThrow(logSub)
               ELSE InspectReturn("undefined")
    /\ UNCHANGED <<deployVars, others, spinner, spinnerLog, logSub, logDelivered, procExited>>

\* the loop that ignores the deadline
LoopCheck_noDeadline ==
    /\ insp.pc = "loop"
    /\ ~procExited
    /\ insp.wait => insp.polls < MaxPolls
    /\ insp' = [insp EXCEPT !.pc = IF ~insp.wait THEN "details" ELSE "sleeping"]
    /\ UNCHANGED <<deployVars, others, spinner, spinnerLog, logSub, logDelivered, procExited>>

\* while (Date.now() < until) { if (!wait) break; await sleep(250); ...
LoopCheck ==
    /\ insp.pc = "loop"
    /\ ~procExited
    /\ (~insp.expired /\ insp.wait) => insp.polls < MaxPolls
    /\ insp' = [insp EXCEPT !.pc = IF insp.expired \/ ~insp.wait THEN "details" ELSE "sleeping"]
    /\ UNCHANGED <<deployVars, others, spinner, spinnerLog, logSub, logDelivered, procExited>>

\* sleep(250) is over: getDeployment is called again
SleepDone ==
    /\ insp.pc = "sleeping"
    /\ ~procExited
    /\ insp' = [insp EXCEPT !.pc = "polling", !.polls = @ + 1, !.fetches = @ + 1]
    /\ UNCHANGED <<deployVars, others, spinner, spinnerLog, logSub, logDelivered, procExited>>

\* the deployment was fetched again: when it is no longer deploying the
\* subscription is aborted and the loop left
Poll(deploying) ==
    /\ insp.pc = "polling"
    /\ ~procExited
    /\ IF deploying
       THEN /\ insp' = [insp EXCEPT !.pc = "loop"]
            /\ UNCHANGED logSub
       ELSE /\ logSub' = IF insp.displayed = "AbortController" THEN Abort(logSub) ELSE logSub
            /\ insp' = [(IF withLogs THEN InspectReturn("undefined") ELSE [insp EXCEPT !.pc = "details"])
                           EXCEPT !.aborts = IF insp.displayed = "AbortController" THEN @ + 1 ELSE @]
    /\ UNCHANGED <<deployVars, others, spinner, spinnerLog, logDelivered, procExited>>

\* Date.now() reaches `until` while inspect is suspended in an await
DeadlinePasses ==
    /\ insp.pc \in {"resolving", "awaiting", "loop", "sleeping", "polling", "details"}
    /\ ~procExited
    /\ ~insp.expired
    /\ insp' = [insp EXCEPT !.expired = TRUE]
    /\ UNCHANGED <<deployVars, others, spinner, spinnerLog, logSub, logDelivered, procExited>>

\* the builds are fetched and the details printed: return 0
Details ==
    /\ insp.pc = "details"
    /\ ~procExited
    /\ insp' = InspectReturn("0")
    /\ UNCHANGED <<deployVars, others, spinner, spinnerLog, logSub, logDelivered, procExited>>

NextInspect ==
    \/ \E input \in InspectInputs : InspectStart(input)
    \/ \E res \in ScopeResults : ScopeDone(res)
    \/ \E e \in Exceptions : ScopeThrow(e)
    \/ DeploymentResolved
    \/ \E e \in Exceptions : FetchThrow(e)
    \/ AwaitLogs
    \/ LoopCheck
    \/ SleepDone
    \/ \E deploying \in BOOLEAN : Poll(deploying)
    \/ Details
    \/ DeadlinePasses
    \/ LogFetchOk
    \/ LogFetchFail
    \/ LogData
    \/ LogMalformed
    \/ LogEnd

(* ---------------------------- runNpmInstall ---------------------------- *)
Invocations == 1..MaxInstalls

\* what scanParentDirs finds: a package.json path, or none
PackagePaths == {"a/package.json", "b/package.json"}

NoPackageJson == "none"

NewInvocation ==
    [pc |-> "new", defaultInstall |-> FALSE, path |-> NoPackageJson, released |-> 0,
     spawned |-> 0, result |-> "-"]

\* const runNpmInstallSema = new Sema(1); one shared meta object
InitInstall ==
    /\ CliIdle
    /\ scan = "idle"
    /\ search = "idle"
    /\ npm = [sema |-> 1, runNpmInstallSet |-> {}, calls |-> [i \in Invocations |-> NewInvocation]]
    /\ content = "idle"
    /\ gobuild = "idle"

\* the invocations between acquire() and release()
Holders == {i \in Invocations : npm.calls[i].pc \in {"scanning", "installing", "retrying"}}

\* the once-per-package.json rule with the lookup in the set left out
alreadyInstalled_neverSkips(c, packageJsonPath) ==
    c.defaultInstall /\ packageJsonPath \in {}

\* meta && packageJsonPath && args.length === 0 && meta.runNpmInstallSet.has(packageJsonPath)
alreadyInstalled(c, packageJsonPath) ==
    c.defaultInstall /\ packageJsonPath \in npm.runNpmInstallSet

\* runNpmInstall is called, as a default install (the shared meta and no
\* additional args) or not: in dev mode it returns false at once, otherwise
\* it goes on to await runNpmInstallSema.acquire()
NpmCall(i, isDev, defaultInstall) ==
    /\ npm.calls[i].pc = "new"
    /\ \A j \in Invocations : j < i => npm.calls[j].pc # "new"
    /\ npm' = [npm EXCEPT !.calls[i] =
                  IF isDev
                  THEN [@ EXCEPT !.pc = "done", !.result = "false", !.defaultInstall = defaultInstall]
                  ELSE [@ EXCEPT !.pc = "acquiring", !.defaultInstall = defaultInstall]]
    /\ UNCHANGED <<cliVars, content, gobuild, scan, search>>

\* acquire() resolves with a free permit; then await scanParentDirs(...)
NpmAcquire(i) ==
    /\ npm.calls[i].pc = "acquiring"
    /\ npm.sema > 0
    /\ npm' = [npm EXCEPT !.sema = @ - 1, !.calls[i].pc = "scanning"]
    /\ UNCHANGED <<cliVars, content, gobuild, scan, search>>

\* scanParentDirs resolved: without a package.json release() and return
\* false, through finally { release() }; a path already in the set returns
\* false through finally; otherwise the path is recorded and the install spawned
NpmScanned(i, packageJsonPath) ==
    /\ npm.calls[i].pc = "scanning"
    /\ npm' =
         IF packageJsonPath = NoPackageJson
         THEN [npm EXCEPT !.sema = @ + 2,
                          !.calls[i] = [@ EXCEPT !.pc = "done", !.result = "false", !.released = @ + 2]]
         ELSE IF alreadyInstalled(npm.calls[i], packageJsonPath)
         THEN [npm EXCEPT !.sema = @ + 1,
                          !.calls[i] = [@ EXCEPT !.pc = "done", !.result = "false",
                                                 !.path = packageJsonPath, !.released = @ + 1]]
         ELSE [npm EXCEPT !.runNpmInstallSet =
                              IF npm.calls[i].defaultInstall
                              THEN @ \cup {packageJsonPath} ELSE @,
                          !.calls[i] = [@ EXCEPT !.pc = "installing", !.path = packageJsonPath,
                                                 !.spawned = @ + 1]]
    /\ UNCHANGED <<cliVars, content, gobuild, scan, search>>

\* scanParentDirs rejected: finally { release() } and the error leaves
NpmScanThrow(i) ==
    /\ npm.calls[i].pc = "scanning"
    /\ npm' = [npm EXCEPT !.sema = @ + 1,
                          !.calls[i] = [@ EXCEPT !.pc = "done", !.result = "throw", !.released = @ + 1]]
    /\ UNCHANGED <<cliVars, content, gobuild, scan, search>>

\* spawnAsync resolved: return true through finally { release() }
NpmSpawnOk(i) ==
    /\ npm.calls[i].pc \in {"installing", "retrying"}
    /\ npm' = [npm EXCEPT !.sema = @ + 1,
                          !.calls[i] = [@ EXCEPT !.pc = "done", !.result = "true", !.released = @ + 1]]
    /\ UNCHANGED <<cliVars, content, gobuild, scan, search>>

\* what the retry depends on: the package manager, Node 16 or the npm7 path,
\* --legacy-peer-deps among args, ENABLE_EXPERIMENTAL_COREPACK = '1',
\* VERCEL_NPM_LEGACY_PEER_DEPS = '1', and whether eresolve-report.txt exists
InstallEnvs ==
    [cliType : {"npm", "yarn"}, node16 : BOOLEAN, legacyPeerDeps : BOOLEAN, corepack : BOOLEAN,
     flag : BOOLEAN, report : BOOLEAN]

\* const isPotentiallyBrokenNpm = ...
isPotentiallyBrokenNpm(env) ==
    env.cliType = "npm" /\ env.node16 /\ ~env.legacyPeerDeps /\ ~env.corepack

\* commandArgs.includes('--legacy-peer-deps'): it came with args, or was
\* pushed for a potentially broken npm under VERCEL_NPM_LEGACY_PEER_DEPS
commandArgsLegacy(env) ==
    env.legacyPeerDeps \/ (env.cliType = "npm" /\ isPotentiallyBrokenNpm(env) /\ env.flag)

retryWithLegacyPeerDeps_anyReport(env) ==
    isPotentiallyBrokenNpm(env) /\ ~commandArgsLegacy(env)

\* the condition of the catch block around the first spawnAsync
retryWithLegacyPeerDeps(env) ==
    isPotentiallyBrokenNpm(env) /\ ~commandArgsLegacy(env) /\ env.report

\* the first spawnAsync rejected on a potentially broken npm with an
\* eresolve report: the command is spawned again with --legacy-peer-deps
NpmRetry(i) ==
    /\ npm.calls[i].pc = "installing"
    /\ npm' = [npm EXCEPT !.calls[i] = [@ EXCEPT !.pc = "retrying", !.spawned = @ + 1]]
    /\ UNCHANGED <<cliVars, content, gobuild, scan, search>>

\* spawnAsync rejected and is not retried: throw err through finally { release() }
NpmSpawnFail(i) ==
    /\ npm.calls[i].pc \in {"installing", "retrying"}
    /\ npm' = [npm EXCEPT !.sema = @ + 1,
                          !.calls[i] = [@ EXCEPT !.pc = "done", !.result = "throw", !.released = @ + 1]]
    /\ UNCHANGED <<cliVars, content, gobuild, scan, search>>

NextInstall ==
    \/ \E i \in Invocations : \E isDev, defaultInstall \in BOOLEAN : NpmCall(i, isDev, defaultInstall)
    \/ \E i \in Invocations : NpmAcquire(i)
    \/ \E i \in Invocations : \E p \in PackagePaths \cup {NoPackageJson} : NpmScanned(i, p)
    \/ \E i \in Invocations : NpmScanThrow(i)
    \/ \E i \in Invocations : NpmSpawnOk(i)
    \/ \E i \in Invocations : NpmRetry(i)
    \/ \E i \in Invocations : NpmSpawnFail(i)

\* spawnAsync rejected under env: the catch block around the first spawn
\* retries or rethrows; the rejection of the retry leaves runNpmInstall
\* (a default install has no --legacy-peer-deps among its args)
InstallFails(i, env) ==
    /\ env.legacyPeerDeps => ~npm.calls[i].defaultInstall
    /\ IF npm.calls[i].pc = "installing" /\ retryWithLegacyPeerDeps(env)
       THEN NpmRetry(i)
       ELSE NpmSpawnFail(i)

\* the invocations whose failures are followed with their environment
Watched == {1, 2}

\* runNpmInstall with every failure of spawnAsync taken under an environment
NextRetry ==
    \/ \E i \in Watched : \E isDev, defaultInstall \in BOOLEAN : NpmCall(i, isDev, defaultInstall)
    \/ \E i \in Watched : NpmAcquire(i)
    \/ \E i \in Watched : \E p \in PackagePaths \cup {NoPackageJson} : NpmScanned(i, p)
    \/ \E i \in Watched : NpmScanThrow(i)
    \/ \E i \in Watched : NpmSpawnOk(i)
    \/ \E i \in Watched : \E env \in InstallEnvs : InstallFails(i, env)

SpecRetry == InitInstall /\ [][NextRetry]_vars

Next ==
    \/ Start
    \/ \E ev \in StreamEvents :
         \/ OnAdvisory(ev)
         \/ OnFileCount(ev)
         \/ OnFileUploaded(ev)
         \/ OnOther(ev)
         \/ OnCreated(ev)
         \/ OnBuilding(ev)
         \/ OnCanceled(ev)
         \/ OnReady(ev)
         \/ OnChecksRunning(ev)
         \/ OnChecksFailed(ev)
         \/ OnError(ev)
         \/ OnAliasAssigned(ev)
    \/ LinkDone
    \/ \E e \in Exceptions : LinkThrow(e)
    \/ \E code \in ErrorCodes : HandleErrorResolved(code)
    \/ \E e \in Exceptions : HandleErrorThrow(e)
    \/ StreamEnd
    \/ \E e \in Exceptions : StreamThrow(e)
    \/ \E i \in 1..Len(closures) : \E t \in 1..Len(closures[i].sizes) :
         \E n \in 0..closures[i].sizes[t] : Progress(i, t, n)
    \/ LogFetchOk
    \/ LogFetchFail
    \/ LogData
    \/ LogMalformed

Spec == Init /\ [][Next]_vars

SpecUpload == InitUpload /\ [][Next]_vars

\* no read of the stream and no awaited call hangs: while a step is possible,
\* one is eventually taken
SpecInspect == InitInspect /\ [][NextInspect]_vars

SpecInstall == InitInstall /\ [][NextInstall]_vars

SpecLive == Init /\ [][Next]_vars /\ WF_vars(Next)

(* ============================== properties ============================= *)
Count(seq, x) == Len(SelectSeq(seq, LAMBDA e : e = x))

\* position of a status text in the order of the orchestrator's states
Rank(text) ==
    CASE text = "Deploying" -> 0
      [] text = "Uploading" -> 1
      [] text \in {"Queued", "Building"} -> 2
      [] text = "Running Checks" -> 3
      [] text = "Completing" -> 4
      [] OTHER -> 0

OpenSub == {"fetching", "streaming"}

\* a terminal event has been read from the stream
TerminalConsumed ==
    \/ pc = "handlingError"
    \/ outcome.via \in {"alias-assigned", "canceled", "checks-conclusion-failed", "error", "handler"}

\* C1: every run fed a finite event sequence (token present, no collaborator
\* throws) ends with exactly one outcome among Ready, Error, Canceled and
\* ChecksFailed; in particular it never ends with a return of undefined.
C1_ExactlyOneTerminalOutcome ==
    (pc = "done" /\ outcome.via \notin {"token", "stream", "link"})
        => outcome.via \in {"alias-assigned", "error", "handler", "canceled",
                            "checks-conclusion-failed"}

\* C2: the status texts written to the spinner never go back in the order
\* Deploying < Uploading < Queued/Building < Running Checks < Completing.
C2_StatusNeverRegresses ==
    \A i, j \in 1..Len(spinnerLog) :
        i < j => Rank(spinnerLog[i]) <= Rank(spinnerLog[j])

\* C3: once processDeployment has completed, no log subscription it opened
\* is still open (neither a pending fetch nor a live stream).
C3_NoSubscriptionOpenAfterCompletion ==
    pc = "done" => logSub \notin OpenSub

\* C4: on an error event the error of handleDeploymentError is returned
\* exactly when its code is missing_project_settings or forbidden, and is
\* thrown for every other code.
C4_ErrorReturnedIffKnownCode ==
    outcome.via = "error" =>
        /\ outcome.kind \in {"return", "throw"}
        /\ outcome.kind = "return" <=> outcome.value \in {"missing_project_settings", "forbidden"}

C4_Witness ==
    /\ pc = "done"
    /\ outcome.via = "error"
    /\ outcome.kind = "return"
    /\ outcome.value = "forbidden"

C6_CanceledAndChecksFailedReturnPayload ==
    [][(consumed' = consumed + 1 /\ cur'.type \in {"canceled", "checks-conclusion-failed"}) =>
          /\ pc' = "done"
          /\ outcome'.kind = "return"
          /\ outcome'.via = cur'.type
          /\ outcome'.value = cur'.arg
          /\ ~outcome'.hasIndications
          /\ spinner' = Stopped]_vars

C6_Witness ==
    /\ outcome.via = "checks-conclusion-failed"
    /\ outcome.kind = "return"
    /\ outcome.value = "dpl_b"
    /\ Len(spinnerLog) >= 2

\* C7: a malformed line on the build-log stream ends the subscriber only:
\* the process is not terminated by it.
C7_MalformedLineLeavesProcessAlive ==
    logSub = "malformed" => ~procExited

C9_IndicationsOnlyOnSuccess ==
    /\ [](outcome.via = "alias-assigned" =>
             outcome.hasIndications /\ outcome.indications = seen)
    /\ []((outcome.kind # "none" /\ outcome.via # "alias-assigned") =>
             ~outcome.hasIndications /\ outcome.indications = << >>)
    /\ [][Len(seen') > Len(seen) => UNCHANGED <<pc, spinner, spinnerLog, outcome>>]_vars

C9_Witness ==
    /\ outcome.via = "alias-assigned"
    /\ outcome.indications = <<"warning", "tip">>

\* C10: without a TTY, one file-count event leads to at most 5 'Uploading'
\* status writes, however many 'progress' callbacks fire.
C10_AtMostFiveUploadingReports ==
    (~isTTY /\ Len(closures) <= 1) => Count(spinnerLog, "Uploading") <= 5

C10_Witness ==
    /\ ~isTTY
    /\ Len(closures) = 1
    /\ Count(spinnerLog, "Uploading") = 5
    /\ callbacks = 5

\* C11: without a TTY, between two consecutive 'Uploading' reports of one
\* file-count event the uploaded fraction grows by at least 25% of the
\* missing total.
C11_ReportsAtLeastAQuarterApart ==
    [][\A i \in 1..Len(closures) :
          (/\ ~isTTY
           /\ closures'[i].nextStep > closures[i].nextStep
           /\ closures[i].reported # NotReported)
          => 4 * (closures'[i].reported - closures[i].reported) >= missingSize(closures[i])]_vars

LifecycleTexts == {"Queued", "Building", "Running Checks", "Completing"}

\* C12: consecutive events of one phase cause at most one status update for
\* that phase: the same lifecycle status is never written twice in a row.
C12_NoRepeatedLifecycleStatus ==
    \A i \in 1..Len(spinnerLog) - 1 :
        spinnerLog[i] \in LifecycleTexts => spinnerLog[i + 1] # spinnerLog[i]

\* C13: a created event whose readyState is READY does not put the status
\* into Building.
C13_ReadyDeploymentNotShownBuilding ==
    [][(pc = "linking" /\ cur.arg = "READY" /\ pc' = "loop") => spinner' # "Building"]_vars

\* C15: once a created event has been read, no progress callback writes an
\* 'Uploading' status, whatever its interleaving with the stream events.
C15_NoUploadingAfterCreated ==
    [][(/\ reads["created"] > 0
        /\ spinner # "Uploading"
        /\ callbacks' > callbacks
        /\ spinnerLog' # spinnerLog)
          => spinnerLog'[Len(spinnerLog')] # "Uploading"]_vars

\* C16: linkFolderToProject is called exactly once in a run that read a
\* created event, and never in a run that read none.
C16_LinkedExactlyOnce ==
    linkCalls = (IF reads["created"] > 0 THEN 1 ELSE 0)

\* C19: a stream without file-count and file-uploaded events never shows
\* 'Uploading', registers no progress listener, and its alias-assigned event
\* ends the run by returning that event's payload.
C19_NoMissingFilesNoUpload ==
    (reads["file-count"] = 0 /\ reads["file-uploaded"] = 0)
        => /\ Count(spinnerLog, "Uploading") = 0
           /\ closures = << >>
           /\ callbacks = 0
           /\ (cur.type = "alias-assigned"
                  => /\ pc = "done"
                     /\ outcome.kind = "return"
                     /\ outcome.value = cur.arg)

C19_Witness ==
    /\ reads["file-count"] = 0
    /\ reads["file-uploaded"] = 0
    /\ reads["created"] = 1
    /\ consumed = 2
    /\ cur.type = "alias-assigned"
    /\ outcome.kind = "return"

\* C14: with withLogs off, a ready event writes 'Completing' exactly when its
\* checksState is absent or 'completed'; any other ready event, and every
\* ready event with withLogs on, leaves the status as it was.
C14_CompletingIffChecksDone ==
    [][\A ev \in StreamEvents :
          OnReady(ev) =>
              IF ~withLogs /\ ev.arg \in {"absent", "completed"}
              THEN spinner' = "Completing" /\ spinnerLog' = Append(spinnerLog, "Completing")
              ELSE UNCHANGED <<spinner, spinnerLog>>]_vars

C14_Witness ==
    /\ ~withLogs
    /\ consumed = 2
    /\ spinnerLog = <<"Deploying", "Running Checks", "Completing">>

\* C20: an exception raised by the event stream, by linkFolderToProject or by
\* handleDeploymentError leaves processDeployment as that same exception,
\* with the spinner stopped and no log subscription left open; it is not
\* turned into a returned value, and after it nothing more is read or called.
C20_FailurePropagatesUnchanged ==
    [][/\ \A e \in Exceptions :
            (StreamThrow(e) \/ LinkThrow(e) \/ HandleErrorThrow(e))
                => /\ outcome'.kind = "throw"
                   /\ outcome'.value = e
                   /\ pc' = "done"
                   /\ spinner' = Stopped
                   /\ logSub' \notin OpenSub
       /\ outcome.kind = "throw"
            => UNCHANGED <<pc, outcome, consumed, reads, linkCalls, insp, logSub>>]_vars

C20_Witness ==
    /\ outcome.kind = "throw"
    /\ outcome.via = "stream"
    /\ outcome.value = "err_b"
    /\ reads["created"] = 1
    /\ logSub \in {"aborted", "destroyed"}

\* C17: when no stream read and no awaited call hangs, processDeployment
\* eventually ends with a terminal outcome, a returned result or a thrown
\* error.
C17_EventuallyTerminalOutcome ==
    <>(outcome.kind # "none")

C21_NoPollAfterDeadline ==
    [][/\ insp'.polls > insp.polls => (insp.wait /\ ~insp.expired)
       /\ Poll(FALSE) => insp'.pc \in {"done", "details"}
       /\ insp.pc \in {"done", "details"} => insp'.polls = insp.polls
       /\ InspectStart("bad_timeout")
             => (insp'.pc = "done" /\ insp'.result.value = "1" /\ insp'.fetches = 0)]_vars

\* C21, as the code has it: every round of sleep and poll is entered only
\* while the deadline has not passed (the poll itself follows the sleep of
\* 250 ms, during which the deadline may pass), every poll belongs to a round,
\* no round follows a poll that found the deployment settled, none is entered
\* without --wait, and an unparsable --timeout returns 1 before any fetch.
C21_NoRoundAfterDeadline ==
    [][/\ (insp'.pc = "sleeping" /\ insp.pc # "sleeping") => (insp.wait /\ ~insp.expired)
       /\ insp'.polls > insp.polls => (insp.wait /\ insp.pc = "sleeping")
       /\ Poll(FALSE) => insp'.pc \in {"done", "details"}
       /\ insp.pc \in {"done", "details"} => insp'.polls = insp.polls
       /\ InspectStart("bad_timeout")
             => (insp'.pc = "done" /\ insp'.result.value = "1" /\ insp'.fetches = 0)]_vars

C21_Witness ==
    /\ insp.wait
    /\ insp.polls = 2
    /\ insp.expired
    /\ insp.pc = "done"
    /\ insp.result.value = "0"

\* C29: when inspect --wait --logs has returned, its log subscription is no
\* longer open, whichever way the loop was left.
C29_NoSubscriptionOpenAfterInspect ==
    (insp.follow /\ insp.pc = "done" /\ insp.result.kind = "return") => logSub \notin OpenSub

\* the sum of the first n entries of s, counted from the right
RECURSIVE SumUpTo(_, _)
SumUpTo(s, n) == IF n = 0 THEN 0 ELSE s[n] + SumUpTo(s, n - 1)

\* C22: every sample is the aggregate of the task counters: uploadedBytes is
\* the sum of bytesUploaded over the upload tasks and missingSize the sum of
\* the missing files' lengths; with counters that only grow and stay within
\* their file lengths, samples never decrease and never exceed missingSize.
C22_SamplesAreMonotoneAggregates ==
    [][\A i \in 1..Len(closures) :
          LET c == closures[i]
              d == closures'[i]
          IN  /\ uploadedBytes(c) = SumUpTo(c.bytes, Len(c.bytes))
              /\ missingSize(c) = SumUpTo(c.sizes, Len(c.sizes))
              /\ uploadedBytes(c) <= missingSize(c)
              /\ uploadedBytes(d) >= uploadedBytes(c)
              /\ uploadedBytes(d) <= missingSize(d)
              /\ uploadedBytes(d) = SumUpTo(d.bytes, Len(d.bytes))]_vars

C22_Witness ==
    /\ Len(closures) = 1
    /\ closures[1].sizes = <<1, 2>>
    /\ closures[1].bytes = <<1, 1>>
    /\ callbacks = 2

\* C26: at most one invocation of runNpmInstall is between acquiring
\* runNpmInstallSema and releasing it, whatever the calls and their outcomes.
C26_AtMostOneHolder ==
    Cardinality(Holders) <= 1

\* the spawns of the install command by default installs for package.json p,
\* over the invocations 1..n
RECURSIVE SpawnsFor(_, _)
SpawnsFor(p, n) ==
    IF n = 0 THEN 0
    ELSE (IF npm.calls[n].defaultInstall /\ npm.calls[n].path = p THEN npm.calls[n].spawned ELSE 0)
         + SpawnsFor(p, n - 1)

\* the default installs that spawned the install command for package.json p
Installers(p) ==
    {i \in Invocations : npm.calls[i].defaultInstall /\ npm.calls[i].path = p /\ npm.calls[i].spawned > 0}

C28_ReleasedExactlyOnce ==
    \A i \in Invocations :
        /\ npm.calls[i].released <= 1
        /\ i \in Holders => npm.calls[i].released = 0

(***************************************************************************)
(* The content-addressed file set and the upload made from it: hash(files) *)
(* builds the ContentMap, one file at a time; the server then reports the  *)
(* missing hashes and upload(C, M) sends them; a second run follows with   *)
(* an empty missing set.                                                   *)
(***************************************************************************)
\* most files in the hashed file list
MaxFiles == 4

\* the relative paths of the file list
Paths == 1..MaxFiles

\* the contents a file can have
Bytes == 0..2

\* the content hash: a function of the file's bytes only
Digest(data) == (5 * data + 3) % 16

\* the keys of a ContentMap
Keys(map) == {e.hash : e \in map}

insert_noLookup(map, name, data) ==
    map \cup {[hash |-> Digest(data), names |-> {name}, data |-> data]}

\* one file enters the ContentMap: under the entry of its hash when there is
\* one, under a new entry otherwise
insert(map, name, data) ==
    IF \E e \in map : e.hash = Digest(data)
    THEN {IF e.hash = Digest(data) THEN [e EXCEPT !.names = e.names \cup {name}] ELSE e : e \in map}
    ELSE map \cup {[hash |-> Digest(data), names |-> {name}, data |-> data]}

worklist_allKeys(c) == Keys(c.map)

\* the hashes upload(C, M) has to send in the current run
worklist(c) == c.missing[c.run]

InitContent ==
    /\ CliIdle
    /\ scan = "idle"
    /\ search = "idle"
    /\ npm = "idle"
    /\ gobuild = "idle"
    /\ \E S \in SUBSET Paths : \E tree \in [S -> Bytes] :
          content = [phase |-> "hashing", tree |-> tree, pending |-> S, map |-> {},
                     run |-> 1, missing |-> <<{}, {}>>, sent |-> {}, uploads |-> <<>>]

\* hash(files): the next file is read and enters the map
HashFile(p) ==
    /\ content.phase = "hashing"
    /\ p \in content.pending
    /\ content' = [content EXCEPT !.pending = @ \ {p},
                                  !.map = insert(@, p, content.tree[p])]
    /\ UNCHANGED <<cliVars, npm, gobuild, scan, search>>

\* the server answers the manifest with the hashes it lacks
MissingReported(M) ==
    /\ content.phase = "hashing"
    /\ content.pending = {}
    /\ M \subseteq Keys(content.map)
    /\ content' = [content EXCEPT !.phase = "uploading", !.missing[1] = M]
    /\ UNCHANGED <<cliVars, npm, gobuild, scan, search>>

\* one upload request for hash h: acknowledged whole, or rejected, which fails
\* the upload phase
Upload(h, ok) ==
    /\ content.phase = "uploading"
    /\ h \in worklist(content) \ content.sent
    /\ content' = [content EXCEPT !.uploads = Append(@, [run |-> content.run, hash |-> h]),
                                  !.sent = IF ok THEN @ \cup {h} ELSE @,
                                  !.phase = IF ok THEN @ ELSE "failed"]
    /\ UNCHANGED <<cliVars, npm, gobuild, scan, search>>

\* every hash of the worklist is sent: the first run is followed by
\* upload(C, {}), the second run ends the phase
UploadsComplete ==
    /\ content.phase = "uploading"
    /\ worklist(content) \subseteq content.sent
    /\ content' = IF content.run = 1
                  THEN [content EXCEPT !.run = 2, !.sent = {}]
                  ELSE [content EXCEPT !.phase = "uploaded"]
    /\ UNCHANGED <<cliVars, npm, gobuild, scan, search>>

NextContent ==
    \/ \E p \in Paths : HashFile(p)
    \/ \E M \in SUBSET {Digest(b) : b \in Bytes} : MissingReported(M)
    \/ \E h \in {Digest(b) : b \in Bytes}, ok \in BOOLEAN : Upload(h, ok)
    \/ UploadsComplete

SpecContent == InitContent /\ [][NextContent]_vars

\* C23: once the file list is hashed, the content map has exactly one entry
\* per distinct file content: files of equal content share one hash key whose
\* names hold every path of that content, and every file is under exactly
\* one key.
C23_OneEntryPerContent ==
    (content.phase # "hashing" \/ content.pending = {}) =>
        /\ Cardinality(content.map) = Cardinality({content.tree[p] : p \in DOMAIN content.tree})
        /\ \A e1, e2 \in content.map : e1.hash = e2.hash => e1 = e2
        /\ \A p \in DOMAIN content.tree :
              /\ Cardinality({e \in content.map : p \in e.names}) = 1
              /\ \A e \in content.map :
                    p \in e.names <=> e.hash = Digest(content.tree[p])
        /\ \A e \in content.map :
              e.names = {p \in DOMAIN content.tree : content.tree[p] = e.data}

\* four files with one duplicate pair: three entries, one of them with two names
C23_Witness ==
    /\ content.pending = {}
    /\ DOMAIN content.tree = 1..4
    /\ content.tree[1] = content.tree[2]
    /\ Cardinality(content.map) = 3
    /\ \E e \in content.map : e.names = {1, 2}
    /\ \E e \in content.map : e.names = {3}
    /\ \E e \in content.map : e.names = {4}

\* C24: upload(C, M) sends only hashes of M, each in one request, and the
\* following upload(C, {}) makes no request at all.
C24_UploadsOnlyMissing ==
    /\ \A i \in 1..Len(content.uploads) :
          /\ content.uploads[i].run = 1
          /\ content.uploads[i].hash \in content.missing[1]
    /\ content.missing[1] \subseteq Keys(content.map)
    /\ content.phase = "uploaded" =>
          {content.uploads[i].hash : i \in 1..Len(content.uploads)} = content.missing[1]

C24_Witness ==
    /\ content.phase = "uploaded"
    /\ content.run = 2
    /\ Cardinality(Keys(content.map)) = 3
    /\ Cardinality(content.missing[1]) = 2
    /\ Len(content.uploads) = 2

(***************************************************************************)
(* The Go builder: build() changes the work tree step by step, records how *)
(* to undo each change, and runs cleanupFileSystem in its finally block.   *)
(* The work tree is the content of the paths the builder touches: of the   *)
(* entrypoint file the content is the name of its handler function.        *)
(***************************************************************************)
FsPaths == {"entrypoint", "renamedEntrypoint", "finalDestination", "main.go", "go.mod", "go.sum"}

\* the work tree before build(): the entrypoint with its handler function,
\* and the project's own go.mod when it has one
originalFs(goMod) ==
    [p \in FsPaths |-> IF p = "entrypoint" THEN "Handler"
                       ELSE IF p = "go.mod" /\ goMod # "none" THEN "user"
                       ELSE "absent"]

InitGo ==
    /\ CliIdle
    /\ scan = "idle"
    /\ search = "idle"
    /\ npm = "idle"
    /\ content = "idle"
    /\ \E bracketed \in BOOLEAN, goMod \in {"none", "same", "parent"}, packageMain \in BOOLEAN, userPkgDir \in BOOLEAN :
          gobuild = [pc |-> "download", bracketed |-> bracketed, goMod |-> goMod,
                     packageMain |-> packageMain, userPkgDir |-> userPkgDir,
                     fs |-> originalFs(goMod), dir |-> userPkgDir, entrypoint |-> "entrypoint",
                     undo |-> [fileActions |-> <<>>, directoryCreation |-> <<>>, functionRenames |-> <<>>],
                     cleaned |-> 0, fault |-> "none", cleanupError |-> FALSE, result |-> "-", error |-> "none"]

reverse_inOrder(s) == s

\* Array.prototype.reverse
reverse(s) == [i \in 1..Len(s) |-> s[Len(s) + 1 - i]]

\* move and remove of fs-extra: a move fails when its source is missing or
\* its destination exists, and what follows it is not run
RECURSIVE undoFrom(_, _, _)
undoFrom(fs, actions, i) ==
    IF i > Len(actions) THEN [fs |-> fs, ok |-> TRUE]
    ELSE IF actions[i].to = "delete"
    THEN undoFrom([fs EXCEPT ![actions[i].from] = "absent"], actions, i + 1)
    ELSE IF fs[actions[i].from] = "absent" \/ fs[actions[i].to] # "absent"
    THEN [fs |-> fs, ok |-> FALSE]
    ELSE undoFrom([fs EXCEPT ![actions[i].to] = fs[actions[i].from], ![actions[i].from] = "absent"],
                  actions, i + 1)

\* the file is read, every occurrence of `from` becomes `to`, the file is
\* written; reading a missing file fails
renameHandlerFunction(fs, fsPath, from, to) ==
    IF fs[fsPath] = "absent" THEN [fs |-> fs, ok |-> FALSE]
    ELSE [fs |-> [fs EXCEPT ![fsPath] = IF @ = from THEN to ELSE @], ok |-> TRUE]

cleanupFailed_rethrows(g) == [g EXCEPT !.cleanupError = TRUE, !.result = "throw", !.error = "cleanup"]

\* the catch inside the finally block of build(): the cleanup error is
\* written to the console and goes no further
cleanupFailed(g) == [g EXCEPT !.cleanupError = TRUE]

\* the file actions are undone last first, then the function renames, then
\* the created directories are removed when they are empty; an error ends it
cleanupFileSystem(g) ==
    LET files == undoFrom(g.fs, reverse(g.undo.fileActions), 1)
        renamed == IF g.undo.functionRenames = <<>> THEN files
                   ELSE renameHandlerFunction(files.fs, g.undo.functionRenames[1].fsPath,
                                              g.undo.functionRenames[1].from, g.undo.functionRenames[1].to)
    IN  IF ~files.ok THEN cleanupFailed([g EXCEPT !.fs = files.fs])
        ELSE IF ~renamed.ok THEN cleanupFailed([g EXCEPT !.fs = renamed.fs])
        ELSE [g EXCEPT !.fs = renamed.fs,
                       !.dir = IF g.undo.directoryCreation # <<>>
                                  /\ ~g.userPkgDir /\ renamed.fs["finalDestination"] = "absent"
                               THEN FALSE ELSE @]

\* an awaited step throws: build() goes to its catch and finally blocks
Thrown(g) == [g EXCEPT !.pc = "cleanup", !.result = "throw", !.error = "build"]

\* getWriteableDirectory and download, before the try block
Download(ok) ==
    /\ gobuild.pc = "download"
    /\ gobuild' = IF ok THEN [gobuild EXCEPT !.pc = "bracket"]
                  ELSE [gobuild EXCEPT !.pc = "done", !.result = "throw", !.error = "build"]
    /\ UNCHANGED <<cliVars, npm, content, scan, search>>

\* an entrypoint whose file name starts with a bracket is moved
MoveBracketed(ok) ==
    /\ gobuild.pc = "bracket"
    /\ gobuild' =
          IF ~gobuild.bracketed THEN [gobuild EXCEPT !.pc = "analyze"]
          ELSE IF ~ok THEN Thrown(gobuild)
          ELSE [gobuild EXCEPT !.pc = "analyze",
                               !.fs = [@ EXCEPT !["renamedEntrypoint"] = gobuild.fs["entrypoint"],
                                                !["entrypoint"] = "absent"],
                               !.undo.fileActions = Append(@, [to |-> "entrypoint", from |-> "renamedEntrypoint"]),
                               !.entrypoint = "renamedEntrypoint"]
    /\ UNCHANGED <<cliVars, npm, content, scan, search>>

\* findGoModPath, the vendor check, getAnalyzedEntrypoint and the rejection
\* of package main next to a go.mod
Analyze(ok) ==
    /\ gobuild.pc = "analyze"
    /\ gobuild' = IF ~ok \/ (gobuild.goMod # "none" /\ gobuild.packageMain)
                  THEN Thrown(gobuild)
                  ELSE [gobuild EXCEPT !.pc = "rename"]
    /\ UNCHANGED <<cliVars, npm, content, scan, search>>

\* the handler function is renamed in the entrypoint file where it is now;
\* the undo names the original entrypoint path
RenameHandler(ok) ==
    /\ gobuild.pc = "rename"
    /\ gobuild' =
          IF ~ok THEN Thrown(gobuild)
          ELSE [gobuild EXCEPT
                  !.pc = IF ~gobuild.packageMain /\ gobuild.goMod = "none" THEN "writeGoMod" ELSE "writeMain",
                  !.fs = renameHandlerFunction(@, gobuild.entrypoint, "Handler", "Handler_slug").fs,
                  !.undo.functionRenames = Append(@, [fsPath |-> "entrypoint", from |-> "Handler_slug", to |-> "Handler"])]
    /\ UNCHANGED <<cliVars, npm, content, scan, search>>

\* buildHandlerWithGoMod without a go.mod: a default one is written
WriteGoMod(ok) ==
    /\ gobuild.pc = "writeGoMod"
    /\ gobuild' =
          IF ~ok THEN Thrown(gobuild)
          ELSE [gobuild EXCEPT
                  !.pc = "writeMain",
                  !.fs = [@ EXCEPT !["go.mod"] = "generated"],
                  !.undo.fileActions = @ \o <<[to |-> "delete", from |-> "go.mod"], [to |-> "delete", from |-> "go.sum"]>>]
    /\ UNCHANGED <<cliVars, npm, content, scan, search>>

\* main.go is written, by buildHandlerAsPackageMain or buildHandlerWithGoMod
WriteMain(ok) ==
    /\ gobuild.pc = "writeMain"
    /\ gobuild' =
          IF ~ok THEN Thrown(gobuild)
          ELSE [gobuild EXCEPT
                  !.pc = IF gobuild.packageMain THEN "goGet"
                         ELSE IF gobuild.goMod \in {"none", "same"} THEN "moveEntry" ELSE "goMod",
                  !.fs = [@ EXCEPT !["main.go"] = "generated"],
                  !.undo.fileActions = Append(@, [to |-> "delete", from |-> "main.go"])]
    /\ UNCHANGED <<cliVars, npm, content, scan, search>>

\* the entrypoint is moved into the package folder
MoveEntry(ok) ==
    /\ gobuild.pc = "moveEntry"
    /\ gobuild' =
          IF ~ok THEN Thrown(gobuild)
          ELSE [gobuild EXCEPT
                  !.pc = "goMod",
                  !.fs = [@ EXCEPT !["finalDestination"] = gobuild.fs[gobuild.entrypoint],
                                   ![gobuild.entrypoint] = "absent"],
                  !.dir = TRUE,
                  !.undo.fileActions = Append(@, [to |-> gobuild.entrypoint, from |-> "finalDestination"]),
                  !.undo.directoryCreation = Append(@, "package")]
    /\ UNCHANGED <<cliVars, npm, content, scan, search>>

\* go get, go mod tidy and go build; go mod tidy may write go.sum
GoTool(ok, sum) ==
    /\ gobuild.pc \in {"goGet", "goMod", "goBuild"}
    /\ sum => gobuild.pc = "goMod"
    /\ gobuild' =
          IF ~ok THEN Thrown([gobuild EXCEPT !.fs = [@ EXCEPT !["go.sum"] = IF sum THEN "generated" ELSE @]])
          ELSE IF gobuild.pc = "goBuild" THEN [gobuild EXCEPT !.pc = "cleanup", !.result = "return"]
          ELSE [gobuild EXCEPT !.pc = "goBuild",
                               !.fs = [@ EXCEPT !["go.sum"] = IF sum THEN "generated" ELSE @]]
    /\ UNCHANGED <<cliVars, npm, content, scan, search>>

\* the finally block of build()
Cleanup ==
    /\ gobuild.pc = "cleanup"
    /\ gobuild' = [cleanupFileSystem(gobuild) EXCEPT !.pc = "done", !.cleaned = @ + 1]
    /\ UNCHANGED <<cliVars, npm, content, scan, search>>

\* the finally block of build() when the file system fails during cleanup:
\* at the first file action, at the function rename, or at a directory
CleanupFails(at) ==
    /\ gobuild.pc = "cleanup"
    /\ \/ at = "fileActions" /\ gobuild.undo.fileActions # <<>>
       \/ at = "functionRenames" /\ gobuild.undo.functionRenames # <<>>
       \/ at = "directoryCreation" /\ gobuild.undo.directoryCreation # <<>>
    /\ ~cleanupFileSystem(gobuild).cleanupError
    /\ gobuild' =
          [cleanupFailed(
              IF at = "fileActions" THEN gobuild
              ELSE IF at = "functionRenames"
              THEN [gobuild EXCEPT !.fs = undoFrom(@, reverse(gobuild.undo.fileActions), 1).fs]
              ELSE [cleanupFileSystem(gobuild) EXCEPT !.dir = gobuild.dir])
           EXCEPT !.pc = "done", !.cleaned = @ + 1, !.fault = at]
    /\ UNCHANGED <<cliVars, npm, content, scan, search>>

NextGo ==
    \/ \E ok \in BOOLEAN : Download(ok)
    \/ \E ok \in BOOLEAN : MoveBracketed(ok)
    \/ \E ok \in BOOLEAN : Analyze(ok)
    \/ \E ok \in BOOLEAN : RenameHandler(ok)
    \/ \E ok \in BOOLEAN : WriteGoMod(ok)
    \/ \E ok \in BOOLEAN : WriteMain(ok)
    \/ \E ok \in BOOLEAN : MoveEntry(ok)
    \/ \E ok \in BOOLEAN, sum \in BOOLEAN : GoTool(ok, sum)
    \/ Cleanup
    \/ \E at \in {"fileActions", "functionRenames", "directoryCreation"} : CleanupFails(at)

SpecGo == InitGo /\ [][NextGo]_vars

\* C30: build() always runs cleanup, on success and on failure, and after it
\* the work tree is as before: the entrypoint at its original path with its
\* original handler name, no generated main.go, go.mod or go.sum, and the
\* created directory removed when it is empty.
C30_CleanupAlwaysRestores ==
    gobuild.pc = "done" =>
        /\ gobuild.cleaned = 1
        /\ gobuild.fs = originalFs(gobuild.goMod)
        /\ gobuild.dir = gobuild.userPkgDir

\* C30, as the code has it: cleanup runs exactly once whenever the download
\* succeeded, on return and on throw, and not at all when the download
\* fails, where nothing is changed yet. After a cleanup that met no error
\* of the file system the entrypoint is at its original path with its original handler name, main.go is gone, the
\* go.mod is the project's own or none, the package directory is as it was,
\* and the go.sum written for a generated go.mod is gone; a go.sum that go
\* mod tidy wrote next to the project's own go.mod stays.
C30_CleanupRestoresOnceDownloaded ==
    /\ gobuild.cleaned <= 1
    /\ gobuild.cleaned = 1 => gobuild.pc = "done"
    /\ gobuild.pc = "done" =>
          /\ gobuild.result = "return" => gobuild.cleaned = 1
          /\ gobuild.cleaned = 0 =>
                /\ gobuild.result = "throw"
                /\ gobuild.undo.fileActions = <<>>
                /\ gobuild.fs = originalFs(gobuild.goMod)
          /\ gobuild.fault = "none" =>
                /\ ~gobuild.cleanupError
                /\ gobuild.fs["entrypoint"] = "Handler"
                /\ \A p \in {"renamedEntrypoint", "finalDestination", "main.go"} : gobuild.fs[p] = "absent"
                /\ gobuild.fs["go.mod"] = originalFs(gobuild.goMod)["go.mod"]
                /\ gobuild.goMod = "none" => gobuild.fs["go.sum"] = "absent"
                /\ gobuild.dir = gobuild.userPkgDir

\* a bracketed entrypoint without go.mod was moved twice and built: five file
\* actions, one rename and one directory were undone
C30_Witness ==
    /\ gobuild.pc = "done"
    /\ gobuild.result = "return"
    /\ gobuild.bracketed
    /\ gobuild.goMod = "none"
    /\ ~gobuild.userPkgDir
    /\ Len(gobuild.undo.fileActions) = 5
    /\ Len(gobuild.undo.functionRenames) = 1
    /\ gobuild.undo.directoryCreation = <<"package">>
    /\ gobuild.cleaned = 1
    /\ ~gobuild.cleanupError
    /\ gobuild.fs = originalFs("none")
    /\ ~gobuild.dir

\* C31: a failure during cleanup never changes the result of build(): a build
\* that succeeded still returns its output, and a build that failed throws
\* its own error, not the cleanup error.
C31_CleanupFailureKeepsResult ==
    [][(gobuild.pc = "cleanup" /\ gobuild'.cleanupError) =>
          /\ gobuild'.pc = "done"
          /\ gobuild'.result = gobuild.result
          /\ gobuild'.error = gobuild.error
          /\ gobuild'.result = "return" => gobuild'.error = "none"
          /\ gobuild'.result = "throw" => gobuild'.error = "build"]_vars

\* cleanup failed after a build that succeeded and after one that failed
C31_Witness ==
    /\ gobuild.pc = "done"
    /\ gobuild.cleanupError
    /\ gobuild.result = "return"
    /\ gobuild.error = "none"
    /\ gobuild.fs["main.go"] = "generated"

(***************************************************************************)
(* scanParentDirs: the lockfiles are looked for from destPath upward, in   *)
(* the nearest directory that has any of them, and the package manager is  *)
(* picked from what was found and read there.                              *)
(***************************************************************************)
\* most directories from destPath up to base
MaxDirs == 2

\* what a directory can hold: yarn.lock, package-lock.json and
\* pnpm-lock.yaml are there or not, bun.lockb is absent, an empty file or a
\* binary lockfile
Directories ==
    [yarn : BOOLEAN, npm : BOOLEAN, pnpm : BOOLEAN, bun : {"absent", "empty", "binary"}]

InitScan ==
    /\ CliIdle
    /\ npm = "idle"
    /\ content = "idle"
    /\ gobuild = "idle"
    /\ search = "idle"
    /\ \E n \in 1..MaxDirs : \E dirs \in [1..n -> Directories] :
          scan = [pc |-> "walking", dirs |-> dirs, dir |-> 1, paths |-> <<>>,
                  cliType |-> "-", lockfilePath |-> "-"]

\* fs.pathExists of each of the four file names in directory d
existResults(d) == <<d.yarn, d.npm, d.pnpm, d.bun # "absent">>

\* walkParentDirsMulti, one directory of traverseUpDirectories: the first
\* directory with one file or more ends the walk, base ends it with nothing
WalkUp ==
    /\ scan.pc = "walking"
    /\ LET found == existResults(scan.dirs[scan.dir])
       IN  scan' =
             IF \E i \in 1..4 : found[i]
             THEN [scan EXCEPT !.pc = "picking",
                               !.paths = [i \in 1..4 |-> IF found[i] THEN scan.dir ELSE 0]]
             ELSE IF scan.dir = Len(scan.dirs)
             THEN [scan EXCEPT !.pc = "picking", !.paths = <<0, 0, 0, 0>>]
             ELSE [scan EXCEPT !.dir = @ + 1]
    /\ UNCHANGED <<cliVars, npm, content, gobuild, search>>

\* a lockfile path, or undefined
lockfile(dir, name) == IF dir = 0 THEN "undefined" ELSE <<dir, name>>

\* the files found are read and the priority chain picks: what counts is
\* that yarn.lock was found and what the other three files read as
Pick ==
    /\ scan.pc = "picking"
    /\ LET hasYarnLock == scan.paths[1] # 0
           packageLockJson == scan.paths[2] # 0
           pnpmLockYaml == scan.paths[3] # 0
           bunLockBin == scan.paths[4] # 0 /\ scan.dirs[scan.paths[4]].bun = "binary"
           pick(cliType, i, name) ==
               [scan EXCEPT !.pc = "done", !.cliType = cliType, !.lockfilePath = lockfile(scan.paths[i], name)]
       IN  scan' =
             IF bunLockBin /\ hasYarnLock THEN pick("bun", 4, "bun.lockb")
             ELSE IF hasYarnLock THEN pick("yarn", 1, "yarn.lock")
             ELSE IF pnpmLockYaml THEN pick("pnpm", 3, "pnpm-lock.yaml")
             ELSE IF packageLockJson THEN pick("npm", 2, "package-lock.json")
             ELSE IF bunLockBin THEN pick("bun", 4, "bun.lockb")
             ELSE [scan EXCEPT !.pc = "done", !.cliType = "npm", !.lockfilePath = "undefined"]
    /\ UNCHANGED <<cliVars, npm, content, gobuild, search>>

NextScan == WalkUp \/ Pick

SpecScan == InitScan /\ [][NextScan]_vars

\* C32: the result of scanParentDirs is that of the highest-priority match
\* (bun with yarn.lock, yarn, pnpm, npm, bun) among the lockfiles present in
\* the nearest directory that has any lockfile, and npm with no lockfile
\* path when no directory has one.
C32_HighestPriorityLockfile ==
    scan.pc = "done" =>
        LET with == {i \in 1..Len(scan.dirs) : \E k \in 1..4 : existResults(scan.dirs[i])[k]}
            nearest == CHOOSE i \in with : \A j \in with : i <= j
            d == scan.dirs[nearest]
        IN  IF with = {} THEN scan.cliType = "npm" /\ scan.lockfilePath = "undefined"
            ELSE IF d.bun # "absent" /\ d.yarn
            THEN scan.cliType = "bun" /\ scan.lockfilePath = <<nearest, "bun.lockb">>
            ELSE IF d.yarn THEN scan.cliType = "yarn" /\ scan.lockfilePath = <<nearest, "yarn.lock">>
            ELSE IF d.pnpm THEN scan.cliType = "pnpm" /\ scan.lockfilePath = <<nearest, "pnpm-lock.yaml">>
            ELSE IF d.npm THEN scan.cliType = "npm" /\ scan.lockfilePath = <<nearest, "package-lock.json">>
            ELSE scan.cliType = "bun" /\ scan.lockfilePath = <<nearest, "bun.lockb">>

\* C33: with noWait the created handler returns the created deployment: once
\* linkFolderToProject has resolved, processDeployment stops the spinner and
\* returns the payload of created without writing a status; no event is read
\* after created, and no log subscription is ever opened, withLogs or not.
C33_NoWaitReturnsAtCreated ==
    [][/\ (LinkDone /\ noWait) =>
             /\ pc' = "done"
             /\ outcome' = Return("created", cur.arg)
             /\ spinner' = Stopped
             /\ spinnerLog' = spinnerLog
             /\ consumed' = consumed
       /\ (noWait /\ reads["created"] >= 1) => consumed' = consumed
       /\ noWait => (logSub = "none" /\ logSub' = "none")]_vars

\* noWait and withLogs: returned at created with events left unread and no
\* log subscription
C33_Witness ==
    /\ noWait
    /\ withLogs
    /\ pc = "done"
    /\ outcome.kind = "return"
    /\ outcome.via = "created"
    /\ reads["created"] = 1
    /\ consumed < limits.events
    /\ spinner = Stopped
    /\ logSub = "none"

\* C34: with withLogs the events building, ready and checks-running write no
\* status; once the created handler has written Queued or Building at the
\* start of the subscription no other status is written; and the run is not
\* cut short by the subscription, so that the terminal events decide the
\* outcome as they do without withLogs.
C34_WithLogsOnlyQueuedOrBuilding ==
    [][withLogs =>
          /\ (\E ev \in StreamEvents : OnBuilding(ev) \/ OnReady(ev) \/ OnChecksRunning(ev))
                => (spinner' = spinner /\ spinnerLog' = spinnerLog)
          /\ (reads["created"] >= 1 /\ pc # "linking") => spinnerLog' = spinnerLog
          /\ ~procExited']_vars

\* C35: without an authentication token processDeployment throws 'Missing
\* authentication token' and does nothing else: the deployment stream is not
\* opened, the spinner is not started, nothing is linked or subscribed.
C35_MissingTokenThrowsFirst ==
    ~token =>
        /\ pc \in {"start", "done"}
        /\ pc = "done" => outcome = Throw("token", "Missing authentication token")
        /\ pc = "start" => outcome = NoOutcome
        /\ consumed = 0
        /\ spinner = Stopped
        /\ spinnerLog = << >>
        /\ indications = << >>
        /\ closures = << >>
        /\ callbacks = 0
        /\ linkCalls = 0
        /\ logSub = "none"
        /\ ~procExited

C35_Witness ==
    /\ ~token
    /\ pc = "done"
    /\ outcome.kind = "throw"
    /\ outcome.value = "Missing authentication token"
    /\ limits.events > 0
    /\ consumed = 0

\* C36: a failed install is retried at most once, and only for npm with Node
\* 16 or the npm7 path, without --legacy-peer-deps in args or already in the
\* command, with corepack not enabled and with the eresolve report present;
\* in every other case the first error is rethrown, and a failed retry is
\* rethrown without a further attempt.
C36_RetriesOnceWhenBrokenNpm ==
    [][\A i \in Watched :
          /\ npm'.calls[i].spawned <= 2
          /\ npm.calls[i].pc = "retrying" =>
                (npm'.calls[i].spawned = npm.calls[i].spawned /\ npm'.calls[i].pc \in {"retrying", "done"})
          /\ \A env \in InstallEnvs :
                (InstallFails(i, env) /\ npm.calls[i].pc = "installing") =>
                   IF /\ env.cliType = "npm" /\ env.node16 /\ ~env.legacyPeerDeps
                      /\ ~env.corepack /\ ~env.flag /\ env.report
                   THEN /\ npm'.calls[i].pc = "retrying"
                        /\ npm.calls[i].spawned = 1 /\ npm'.calls[i].spawned = 2
                   ELSE /\ npm'.calls[i].pc = "done"
                        /\ npm'.calls[i].result = "throw"
                        /\ npm'.calls[i].spawned = npm.calls[i].spawned]_vars

\* an install that was retried and whose retry failed
C36_Witness ==
    /\ npm.calls[1].pc = "done"
    /\ npm.calls[1].spawned = 2
    /\ npm.calls[1].result = "throw"

(***************************************************************************)
(* findGoModPath(entrypointDir, workPath): a directory is its depth below  *)
(* the filesystem root, which is 0. Both callers pass join(workPath, ...)  *)
(* as entrypointDir, which is normalized and at or below the work path,    *)
(* and workPath as they received it.                                       *)
(***************************************************************************)
\* greatest depth of the entrypoint directory
MaxDepth == 2

\* the iterations of the loop that are followed
MaxChecks == MaxDepth + 2

\* let goModPath = ''
NoGoMod == -1

\* dirname: the parent directory, and the root for the root
dirname(dir) == IF dir = 0 THEN 0 ELSE dir - 1

InitSearch ==
    /\ CliIdle
    /\ npm = "idle"
    /\ content = "idle"
    /\ gobuild = "idle"
    /\ scan = "idle"
    /\ \E entrypointDir \in 0..MaxDepth : \E workPath \in 0..entrypointDir :
       \E normalized \in BOOLEAN : \E goMods \in SUBSET (0..entrypointDir) :
          search = [pc |-> "loop", entrypointDir |-> entrypointDir, workPath |-> workPath,
                    normalized |-> normalized, goMods |-> goMods, dir |-> entrypointDir,
                    isGoModInRootDir |-> FALSE, goModPath |-> NoGoMod, checked |-> 0]

\* dir === workPath: the strings are equal when the directory is the work
\* path and workPath was given in its normal form
isWorkPath(s) == s.dir = s.workPath /\ s.normalized

\* one pass of the loop in which join(dir, 'go.mod') exists
GoModFound ==
    /\ search.pc = "loop"
    /\ search.checked < MaxChecks
    /\ search.dir \in search.goMods
    /\ search' = [search EXCEPT !.pc = "done", !.isGoModInRootDir = isWorkPath(search),
                                !.goModPath = search.dir, !.checked = @ + 1]
    /\ UNCHANGED <<cliVars, npm, content, gobuild, scan>>

\* one pass of the loop without a go.mod: dir = dirname(dir), and the loop
\* ends if this was the work path
GoModMissing ==
    /\ search.pc = "loop"
    /\ search.checked < MaxChecks
    /\ search.dir \notin search.goMods
    /\ search' = [search EXCEPT !.pc = IF isWorkPath(search) THEN "done" ELSE "loop",
                                !.isGoModInRootDir = isWorkPath(search),
                                !.dir = dirname(@), !.checked = @ + 1]
    /\ UNCHANGED <<cliVars, npm, content, gobuild, scan>>

NextSearch == GoModFound \/ GoModMissing

SpecSearch == InitSearch /\ [][NextSearch]_vars

\* C37: findGoModPath ends after checking at most the directories from the
\* entrypoint directory up to the work path, never checks a directory above
\* the work path or the root twice, and returns the nearest go.mod at or
\* below the work path, with isGoModInRootDir exactly when it is in the work
\* path, or no go.mod after the work path was checked.
C37_FindGoModPathStopsAtWorkPath ==
    LET below == {d \in search.goMods : d >= search.workPath}
    IN  /\ search.checked <= search.entrypointDir - search.workPath + 1
        /\ search.pc = "loop" => search.dir >= search.workPath
        /\ search.pc = "done" =>
              IF below = {}
              THEN /\ search.goModPath = NoGoMod
                   /\ search.checked = search.entrypointDir - search.workPath + 1
              ELSE /\ search.goModPath \in below
                   /\ \A d \in below : d <= search.goModPath
                   /\ search.isGoModInRootDir <=> search.goModPath = search.workPath
====
